---- MODULE Spec2Model ----
(***************************************************************************)
(* django-honeyguard: the detection functions (honeypot flag, timing       *)
(* classification, risk score), the fake-admin view with its signal        *)
(* handler, and the lazily cached settings object.                         *)
(*                                                                         *)
(* Time is counted in whole seconds.  Python strings whose content matters *)
(* (the hp field, passwords) are sequences of one-character strings; every *)
(* other Python value is a tagged record [k |-> kind, v |-> payload].      *)
(***************************************************************************)
EXTENDS Integers, Sequences, FiniteSets, TLC

VARIABLES
    fnIn,      \* pure-function harness: the arguments of the call
    fnOut,     \* pure-function harness: the value returned (NoOut before the call)
    now,       \* timezone.now(), in seconds
    session,   \* request.session["form_render_time"] of the client's session
    db,        \* HoneyGuardLog rows, in insertion order
    outbox,    \* emails handed to send_mail
    console,   \* the lines the HoneyGuard loggers have emitted
    sent,      \* data of the honeypot_triggered signals sent, in order
    verdicts,  \* the timing results the last POST could have got with other form fields
    requests,  \* number of requests handled so far
    response,  \* what the last request was answered with
    last,      \* the last request, and how many rows and mails there were before it
    djDict,    \* django.conf.settings.HONEYGUARD: key -> value or Unset
    djIndiv,   \* django.conf.settings.HONEYGUARD_<KEY>: key -> value or Unset
    cache,     \* Settings instance __dict__: key -> value or Unset
    resetFrom, \* whether reset() was the last call, and the cache it cleared
    lastGet,   \* outcome of the attribute access, while it is the latest call on settings
    changes,   \* number of configuration changes made so far
    reader,    \* the thread that reads a setting: where it is in the access
    resetter,  \* the thread that runs reset(): where it is in the loop
    clearer,   \* the thread that handles the removal of HONEYGUARD_<KEY>
    gets       \* number of accesses the reading thread has begun

vars == <<fnIn, fnOut, now, session, db, outbox, console, sent, verdicts, requests,
          response, last,
          djDict, djIndiv, cache, resetFrom, lastGet, changes,
          reader, resetter, clearer, gets>>

fnVars == <<fnIn, fnOut>>
viewVars == <<now, session, db, outbox, console, sent, verdicts, requests,
             response, last>>
confVars == <<djDict, djIndiv, cache, resetFrom, lastGet, changes>>
raceVars == <<reader, resetter, clearer, gets>>

----------------------------------------------------------------------------
(* Bounds of the model *)

MaxLen == 3        \* longest hp string
MaxTime == 2       \* the clock runs over 0..MaxTime
MaxRequests == 2   \* requests handled in one behaviour
MaxChanges == 2    \* configuration changes in one behaviour
MaxGets == 2       \* accesses the reading thread makes in one behaviour

----------------------------------------------------------------------------
(* Python values *)

NoneV == [k |-> "none", v |-> 0]
Unset == [k |-> "unset", v |-> 0]
Num(n) == [k |-> "num", v |-> n]
StrV(i) == [k |-> "str", v |-> i]
BoolV(b) == [k |-> "bool", v |-> IF b THEN 1 ELSE 0]
ListV(n) == [k |-> "list", v |-> n]
Iso(t) == [k |-> "iso", v |-> t]

\* bool(x) of Python
Truthy(x) ==
    CASE x.k = "none" -> FALSE
      [] x.k = "unset" -> FALSE
      [] x.k = "str" -> x.v # 0
      [] x.k = "iso" -> TRUE
      [] OTHER -> x.v # 0

\* StrV(0) is the empty string, StrV(1) a text that is neither a number nor a date
EmptyStr == StrV(0)
Garbage == StrV(1)

Whitespace == {" ", "\t"}
Chars == {" ", "\t", "x"}

Strings(n) == UNION {[1..m -> Chars] : m \in 0..n}

RECURSIVE lstrip(_)
lstrip(s) == IF s # <<>> /\ Head(s) \in Whitespace THEN lstrip(Tail(s)) ELSE s

RECURSIVE rstrip(_)
rstrip(s) ==
    IF s # <<>> /\ s[Len(s)] \in Whitespace
    THEN rstrip(SubSeq(s, 1, Len(s) - 1))
    ELSE s

stripNone(s) == s

\* str.strip()
strip(s) == rstrip(lstrip(s))

----------------------------------------------------------------------------
(* models.py *)

TOO_FAST == "too_fast"
TOO_SLOW == "too_slow"
VALID == "valid"
NoIssue == "None"

TimingIssue == {TOO_FAST, TOO_SLOW, VALID}

is_bot_and(r) == r.honeypot_triggered /\ r.timing_issue = TOO_FAST

is_bot(r) == r.honeypot_triggered \/ r.timing_issue = TOO_FAST

Min(a, b) == IF a < b THEN a ELSE b

risk_score_slow(r) ==
    Min((IF r.honeypot_triggered THEN 50 ELSE 0)
        + (IF r.timing_issue \in {TOO_FAST, TOO_SLOW} THEN 30 ELSE 0)
        + (IF r.user_agent = <<>> THEN 20 ELSE 0), 100)

risk_score(r) ==
    Min((IF r.honeypot_triggered THEN 50 ELSE 0)
        + (IF r.timing_issue = TOO_FAST THEN 30 ELSE 0)
        + (IF r.user_agent = <<>> THEN 20 ELSE 0), 100)

----------------------------------------------------------------------------
(* utils.py *)

\* timezone.datetime.fromisoformat(render_time): the time, or the exception
fromisoformat(s) ==
    CASE s.k = "iso" -> [ok |-> TRUE, t |-> s.v, exc |-> "none"]
      [] s.k = "str" -> [ok |-> FALSE, t |-> 0, exc |-> "ValueError"]
      [] OTHER -> [ok |-> FALSE, t |-> 0, exc |-> "TypeError"]

\* elapsed < threshold and elapsed > threshold raise TypeError unless the
\* threshold is a number
Comparable(th) == th.k \in {"num", "bool"}

check_timing_attack_swapped(render_time, submit_time, fast, slow) ==
    LET p == fromisoformat(render_time)
        elapsed == submit_time - p.t
    IN  IF ~p.ok THEN <<NoIssue, NoneV>>
        ELSE IF ~Comparable(slow) THEN <<NoIssue, NoneV>>
        ELSE IF elapsed > slow.v THEN <<TOO_SLOW, Num(elapsed)>>
        ELSE IF ~Comparable(fast) THEN <<NoIssue, NoneV>>
        ELSE IF elapsed < fast.v THEN <<TOO_FAST, Num(elapsed)>>
        ELSE <<VALID, Num(elapsed)>>

check_timing_attack(render_time, submit_time, fast, slow) ==
    LET p == fromisoformat(render_time)
        elapsed == submit_time - p.t
    IN  IF ~p.ok THEN <<NoIssue, NoneV>>
        ELSE IF ~Comparable(fast) THEN <<NoIssue, NoneV>>
        ELSE IF elapsed < fast.v THEN <<TOO_FAST, Num(elapsed)>>
        ELSE IF ~Comparable(slow) THEN <<NoIssue, NoneV>>
        ELSE IF elapsed > slow.v THEN <<TOO_SLOW, Num(elapsed)>>
        ELSE <<VALID, Num(elapsed)>>

----------------------------------------------------------------------------
(* conf.py: the defaults *)

Keys == {"TIMING_TOO_FAST_THRESHOLD", "TIMING_TOO_SLOW_THRESHOLD",
         "EMAIL_RECIPIENTS", "ENABLE_GET_METHOD_DETECTION",
         "ENABLE_CONSOLE_LOGGING", "LOG_LEVEL", "DJANGO_ERROR_MESSAGE"}

\* logging.DEBUG .. logging.CRITICAL
Levels == {10, 20, 30, 40, 50}

\* a level name in upper case, StrV(10) for "DEBUG", and in lower case
LevelName(level) == StrV(level)
LowerLevelName(level) == StrV(level + 100)

DEFAULTS ==
    [key \in Keys |->
        CASE key = "TIMING_TOO_FAST_THRESHOLD" -> Num(2)
          [] key = "TIMING_TOO_SLOW_THRESHOLD" -> Num(600)
          [] key = "EMAIL_RECIPIENTS" -> ListV(0)
          [] key = "ENABLE_GET_METHOD_DETECTION" -> BoolV(FALSE)
          [] key = "ENABLE_CONSOLE_LOGGING" -> BoolV(TRUE)
          [] key = "LOG_LEVEL" -> LevelName(30)
          [] key = "DJANGO_ERROR_MESSAGE" -> StrV(2)]

----------------------------------------------------------------------------
(* services.py and mixins.py *)

Missing == [has |-> FALSE, s |-> <<>>]
Given(s) == [has |-> TRUE, s |-> s]

\* dict.get(key, "") on an optional entry
Get(hp) == IF hp.has THEN hp.s ELSE <<>>

\* a dict is true unless it is None or empty
DictTruthy(data) ==
    ~data.none /\ (data.user \/ data.hp.has \/ data.render_time # Unset)

\* HoneyGuardService.__init__: the three entries it leaves in self.data
HoneyGuardService_init(data, submit_time, fast, slow) ==
    IF DictTruthy(data)
    THEN LET render_time == IF data.render_time = Unset THEN NoneV
                            ELSE data.render_time
             timing == IF Truthy(render_time)
                       THEN check_timing_attack(render_time, submit_time, fast, slow)
                       ELSE <<VALID, Num(0)>>
         IN  [honeypot_triggered |-> strip(Get(data.hp)) # <<>>,
              timing_issue |-> timing[1],
              elapsed_time |-> timing[2]]
    ELSE [honeypot_triggered |-> FALSE,
          timing_issue |-> VALID,
          elapsed_time |-> Num(0)]

\* LoginFormMixin.is_honeypot_triggered over the form's data
is_honeypot_triggered(hp) == strip(Get(hp)) # <<>>

----------------------------------------------------------------------------
(* loggers.py: HoneyGuardLogger._should_log *)

\* str.upper() on a level name
Upper(value) == IF value.v > 100 THEN StrV(value.v - 100) ELSE value

\* _should_log if it asked for a level above the configured one
should_log_above(enabled, log_level, level) ==
    IF ~Truthy(enabled) THEN FALSE
    ELSE LET name == Upper(log_level)
             configured == IF name.v \in Levels THEN name.v ELSE 30
         IN  level > configured

\* HoneyGuardLogger._should_log on the values of ENABLE_CONSOLE_LOGGING and
\* LOG_LEVEL (a string); a name outside the map counts as WARNING
should_log_with(enabled, log_level, level) ==
    IF ~Truthy(enabled) THEN FALSE
    ELSE LET name == Upper(log_level)
             configured == IF name.v \in Levels THEN name.v ELSE 30
         IN  level >= configured

----------------------------------------------------------------------------
(* The pure functions, each called once on arguments drawn at the start *)

NoOut == [fn |-> "none"]

HpShapes == {Missing} \cup {Given(s) : s \in Strings(MaxLen)}

RenderTimes == {NoneV, EmptyStr, Garbage} \cup {Iso(t) : t \in 0..MaxTime}

ThresholdValues == {Num(n) : n \in -1..MaxTime} \cup {Garbage}

ServiceData ==
    {[none |-> TRUE, user |-> FALSE, hp |-> Missing, render_time |-> Unset]}
    \cup [none : {FALSE}, user : BOOLEAN, hp : HpShapes,
          render_time : {Unset, NoneV, EmptyStr, Garbage, Iso(0)}]

UserAgents == {<<>>, <<"x">>}

LogRecords ==
    [honeypot_triggered : BOOLEAN,
     timing_issue : TimingIssue \cup {NoIssue},
     user_agent : UserAgents]

\* LOG_LEVEL as configured: a level name in upper or lower case, or another
\* string
LogLevels ==
    {LevelName(l) : l \in Levels} \cup {LowerLevelName(l) : l \in Levels}
    \cup {Garbage}

FnInputs ==
    [fn : {"service"}, data : ServiceData, t : {1, MaxTime}]
    \cup [fn : {"mixin"}, hp : HpShapes]
    \cup [fn : {"timing"}, rt : RenderTimes, t : 0..MaxTime,
          fast : ThresholdValues, slow : ThresholdValues]
    \cup [fn : {"risk", "bot"}, rec : LogRecords]
    \cup [fn : {"logger"}, enabled : {BoolV(TRUE), BoolV(FALSE)},
          log_level : LogLevels, level : Levels]

InitFn ==
    /\ fnIn \in FnInputs
    /\ fnOut = NoOut

CallService ==
    /\ fnIn.fn = "service" /\ fnOut = NoOut
    /\ fnOut' = [fn |-> "service",
                 val |-> HoneyGuardService_init(
                            fnIn.data, fnIn.t,
                            DEFAULTS["TIMING_TOO_FAST_THRESHOLD"],
                            DEFAULTS["TIMING_TOO_SLOW_THRESHOLD"])]
    /\ UNCHANGED <<fnIn, viewVars, confVars, raceVars>>

CallMixin ==
    /\ fnIn.fn = "mixin" /\ fnOut = NoOut
    /\ fnOut' = [fn |-> "mixin", val |-> is_honeypot_triggered(fnIn.hp)]
    /\ UNCHANGED <<fnIn, viewVars, confVars, raceVars>>

CallCheckTiming ==
    /\ fnIn.fn = "timing" /\ fnOut = NoOut
    /\ fnOut' = [fn |-> "timing",
                 val |-> check_timing_attack(fnIn.rt, fnIn.t, fnIn.fast, fnIn.slow)]
    /\ UNCHANGED <<fnIn, viewVars, confVars, raceVars>>

CallRiskScore ==
    /\ fnIn.fn = "risk" /\ fnOut = NoOut
    /\ fnOut' = [fn |-> "risk", val |-> risk_score(fnIn.rec)]
    /\ UNCHANGED <<fnIn, viewVars, confVars, raceVars>>

CallIsBot ==
    /\ fnIn.fn = "bot" /\ fnOut = NoOut
    /\ fnOut' = [fn |-> "bot", val |-> is_bot(fnIn.rec)]
    /\ UNCHANGED <<fnIn, viewVars, confVars, raceVars>>

\* logger.debug, info, warning, error or critical: whether the line is emitted
CallLogger ==
    /\ fnIn.fn = "logger" /\ fnOut = NoOut
    /\ fnOut' = [fn |-> "logger",
                 val |-> should_log_with(fnIn.enabled, fnIn.log_level, fnIn.level)]
    /\ UNCHANGED <<fnIn, viewVars, confVars, raceVars>>

NextFn ==
    \/ CallService
    \/ CallMixin
    \/ CallCheckTiming
    \/ CallRiskScore
    \/ CallIsBot
    \/ CallLogger

----------------------------------------------------------------------------
(* conf.py: the Settings object *)

Call(n) == [k |-> "call", v |-> n]

is_callable_not_type(value) == value.k = "call"

\* value(): a callable setting returns a number
Invoke(value) == Num(value.v)

\* _get_setting if it looked at HONEYGUARD_<KEY> before the dictionary
get_setting_individual_first(dict, indiv, setting) ==
    IF indiv[setting] # Unset THEN indiv[setting]
    ELSE IF dict[setting] # Unset THEN dict[setting]
    ELSE DEFAULTS[setting]

\* Settings._get_setting: HONEYGUARD dictionary, then HONEYGUARD_<KEY>, then default
get_setting(dict, indiv, setting) ==
    IF dict[setting] # Unset THEN dict[setting]
    ELSE IF indiv[setting] # Unset THEN indiv[setting]
    ELSE DEFAULTS[setting]

\* the value Settings.__getattr__ computes for a key that is not cached
Loaded(dict, indiv, name) ==
    LET value == get_setting(dict, indiv, name)
    IN  IF is_callable_not_type(value) THEN Invoke(value) ELSE value

\* settings.<name> if every access ran __getattr__
ValueReloaded(c, dict, indiv, name) == Loaded(dict, indiv, name)

\* settings.<name> for a key of DEFAULTS: the instance attribute when there is
\* one, else __getattr__
Value(c, dict, indiv, name) ==
    IF c[name] # Unset THEN c[name] ELSE Loaded(dict, indiv, name)

\* the cache after settings.<name>: __getattr__ ends with setattr(self, name, value)
Cached(c, dict, indiv, name) ==
    [c EXCEPT ![name] = Value(c, dict, indiv, name)]

RECURSIVE CachedAll(_, _, _, _)
CachedAll(c, dict, indiv, names) ==
    IF names = <<>> THEN c
    ELSE CachedAll(Cached(c, dict, indiv, Head(names)), dict, indiv, Tail(names))

EmptyConf == [key \in Keys |-> Unset]

\* the settings the deployments below configure and read
Configured == {"TIMING_TOO_FAST_THRESHOLD", "TIMING_TOO_SLOW_THRESHOLD",
               "EMAIL_RECIPIENTS", "LOG_LEVEL"}

Names == Configured \cup {"NO_SUCH_SETTING"}

\* the values a deployment may configure for a key
Configurable(key) ==
    CASE key = "TIMING_TOO_FAST_THRESHOLD" -> {Garbage}
      [] key = "TIMING_TOO_SLOW_THRESHOLD" -> {Call(3)}
      [] key = "EMAIL_RECIPIENTS" -> {ListV(1), Garbage}
      [] key = "ENABLE_GET_METHOD_DETECTION" -> {BoolV(TRUE)}
      [] key = "ENABLE_CONSOLE_LOGGING" -> {BoolV(FALSE)}
      [] key = "LOG_LEVEL" -> {LowerLevelName(10), Garbage}
      [] key = "DJANGO_ERROR_MESSAGE" -> {StrV(3)}

\* HONEYGUARD dictionaries that give one key
DictConfigs ==
    {d \in [Keys -> {Unset} \cup UNION {Configurable(key) : key \in Keys}] :
        /\ \A key \in Keys : d[key] = Unset \/ d[key] \in Configurable(key)
        /\ {key \in Keys : d[key] # Unset} \subseteq Configured
        /\ Cardinality({key \in Keys : d[key] # Unset}) = 1}

NoReset == [done |-> FALSE, cache |-> EmptyConf]

NoGet == [name |-> "", raised |-> "no", value |-> Unset, hit |-> FALSE,
          afterReset |-> FALSE, before |-> Unset]

\* __getattr__ without its check of the name: DEFAULTS[setting] raises KeyError
getattr_raises_unchecked(name) == IF name \notin Keys THEN "KeyError" ELSE "no"

\* what __getattr__ raises: AttributeError for a name that is not in DEFAULTS
getattr_raises(name) == IF name \notin Keys THEN "AttributeError" ELSE "no"

\* getattr(settings, name); the outcome also records whether the attribute
\* was found on the instance (hit), whether the access directly follows
\* reset(), and what reset() had cleared for the key
GetAttr(name) ==
    /\ lastGet' =
          IF name \notin Keys
          THEN [name |-> name, raised |-> getattr_raises(name), value |-> Unset,
                hit |-> FALSE, afterReset |-> resetFrom.done, before |-> Unset]
          ELSE [name |-> name, raised |-> "no",
                value |-> Value(cache, djDict, djIndiv, name),
                hit |-> cache[name] # Unset,
                afterReset |-> resetFrom.done, before |-> resetFrom.cache[name]]
    /\ cache' = IF name \in Keys THEN Cached(cache, djDict, djIndiv, name) ELSE cache
    /\ resetFrom' = NoReset
    /\ UNCHANGED <<djDict, djIndiv, changes, fnVars, viewVars, raceVars>>

\* Settings._handle_dict_setting_change, run on the setting_changed signal that
\* follows a change of HONEYGUARD
\* (isDict: isinstance(value, dict))
handle_dict_setting_change(c, value, isDict, enter) ==
    IF enter /\ isDict
    THEN [key \in Keys |-> IF value[key] # Unset THEN value[key] ELSE c[key]]
    ELSE EmptyConf

\* HONEYGUARD is set to a dictionary (enter) or put back to what it was before
ChangeDict(value, enter) ==
    /\ changes < MaxChanges
    /\ changes' = changes + 1
    /\ djDict' = value
    /\ cache' = handle_dict_setting_change(cache, value, TRUE, enter)
    /\ resetFrom' = NoReset
    /\ lastGet' = NoGet
    /\ UNCHANGED <<djIndiv, fnVars, viewVars, raceVars>>

\* HONEYGUARD is deleted: the signal carries value None, enter False
RemoveDict ==
    /\ changes < MaxChanges
    /\ changes' = changes + 1
    /\ djDict' = EmptyConf
    /\ cache' = handle_dict_setting_change(cache, EmptyConf, FALSE, FALSE)
    /\ resetFrom' = NoReset
    /\ lastGet' = NoGet
    /\ UNCHANGED <<djIndiv, fnVars, viewVars, raceVars>>

\* Settings.change_setting for HONEYGUARD_<key>, key in DEFAULTS
change_setting(c, key, value, enter) ==
    IF enter THEN [c EXCEPT ![key] = value] ELSE [c EXCEPT ![key] = Unset]

\* HONEYGUARD_<key> is set (enter) or put back to what it was before
ChangeIndiv(key, value, enter) ==
    /\ changes < MaxChanges
    /\ changes' = changes + 1
    /\ djIndiv' = [djIndiv EXCEPT ![key] = value]
    /\ cache' = change_setting(cache, key, value, enter)
    /\ resetFrom' = NoReset
    /\ lastGet' = NoGet
    /\ UNCHANGED <<djDict, fnVars, viewVars, raceVars>>

\* HONEYGUARD_<key> is deleted
RemoveIndiv(key) ==
    /\ changes < MaxChanges
    /\ changes' = changes + 1
    /\ djIndiv' = [djIndiv EXCEPT ![key] = Unset]
    /\ cache' = change_setting(cache, key, Unset, FALSE)
    /\ resetFrom' = NoReset
    /\ lastGet' = NoGet
    /\ UNCHANGED <<djDict, fnVars, viewVars, raceVars>>

\* reset if it deleted only the first key of DEFAULTS
reset_first_key(c, dict, indiv, keys) ==
    LET key == CHOOSE k \in keys : TRUE
    IN  [Cached(c, dict, indiv, key) EXCEPT ![key] = Unset]

\* Settings.reset over the keys still to visit: hasattr(self, key) finds the
\* cached attribute or else runs __getattr__, which loads and caches the key;
\* delattr then removes it
RECURSIVE reset(_, _, _, _)
reset(c, dict, indiv, keys) ==
    IF keys = {} THEN c
    ELSE LET key == CHOOSE k \in keys : TRUE
             loaded == Cached(c, dict, indiv, key)
         IN  reset([loaded EXCEPT ![key] = Unset], dict, indiv, keys \ {key})

\* settings.reset()
Reset ==
    /\ cache' = reset(cache, djDict, djIndiv, Keys)
    /\ resetFrom' = [done |-> TRUE, cache |-> cache]
    /\ lastGet' = NoGet
    /\ UNCHANGED <<djDict, djIndiv, changes, fnVars, viewVars, raceVars>>

InitConf ==
    /\ djDict \in {EmptyConf,
                   [EmptyConf EXCEPT !["TIMING_TOO_FAST_THRESHOLD"] = Num(0)],
                   [EmptyConf EXCEPT !["TIMING_TOO_SLOW_THRESHOLD"] = Num(0)]}
    /\ djIndiv = EmptyConf
    /\ cache = EmptyConf
    /\ lastGet = NoGet
    /\ resetFrom = NoReset
    /\ changes = 0

NextConf ==
    \/ \E name \in Names : GetAttr(name)
    \/ \E value \in DictConfigs, enter \in BOOLEAN : ChangeDict(value, enter)
    \/ RemoveDict
    \/ \E key \in Configured : \E value \in Configurable(key), enter \in BOOLEAN :
          ChangeIndiv(key, value, enter)
    \/ \E key \in Configured : RemoveIndiv(key)
    \/ Reset

----------------------------------------------------------------------------
(* conf.py: one thread reads a setting while another replaces HONEYGUARD    *)
(* and runs reset(), and a third handles the removal of a HONEYGUARD_<KEY>  *)
(* setting.  No lock guards the Settings instance; a thread switch can fall *)
(* between any two of the steps below.                                      *)

\* the keys of DEFAULTS in the order reset() visits them
KeyOrder == <<"EMAIL_RECIPIENTS", "TIMING_TOO_FAST_THRESHOLD",
              "TIMING_TOO_SLOW_THRESHOLD", "ENABLE_CONSOLE_LOGGING", "LOG_LEVEL",
              "ENABLE_GET_METHOD_DETECTION", "DJANGO_ERROR_MESSAGE">>

\* the HONEYGUARD_<KEY> settings the third thread sees removed
Cleared == {"EMAIL_RECIPIENTS", "LOG_LEVEL"}

Idle == [at |-> "idle", name |-> "", value |-> Unset]
NotResetting == [at |-> "idle", keys |-> <<>>, value |-> Unset, raised |-> FALSE]
NotClearing == [at |-> "idle", key |-> "", value |-> Unset, raised |-> FALSE]

\* settings.<name>: the attribute lookup on the instance; a miss enters
\* __getattr__
BeginGet(name) ==
    /\ reader.at = "idle"
    /\ gets < MaxGets
    /\ gets' = gets + 1
    /\ IF cache[name] # Unset
       THEN /\ lastGet' = [NoGet EXCEPT !.name = name, !.value = cache[name],
                                        !.hit = TRUE]
            /\ UNCHANGED reader
       ELSE /\ reader' = [at |-> "getattr", name |-> name, value |-> Unset]
            /\ UNCHANGED lastGet
    /\ UNCHANGED <<djDict, djIndiv, cache, resetFrom, changes, resetter, clearer,
                   fnVars, viewVars>>

\* __getattr__: value = self._get_setting(name), and the call of a callable
LoadSetting ==
    /\ reader.at = "getattr"
    /\ reader' = [reader EXCEPT !.at = "loaded",
                                !.value = Loaded(djDict, djIndiv, reader.name)]
    /\ UNCHANGED <<confVars, resetter, clearer, gets, fnVars, viewVars>>

\* __getattr__: setattr(self, name, value); return value
StoreSetting ==
    /\ reader.at = "loaded"
    /\ cache' = [cache EXCEPT ![reader.name] = reader.value]
    /\ lastGet' = [NoGet EXCEPT !.name = reader.name, !.value = reader.value]
    /\ reader' = Idle
    /\ UNCHANGED <<djDict, djIndiv, resetFrom, changes, resetter, clearer, gets,
                   fnVars, viewVars>>

\* the other thread replaces HONEYGUARD and calls settings.reset()
ReplaceAndReset(value) ==
    /\ resetter.at = "idle"
    /\ changes < MaxChanges
    /\ changes' = changes + 1
    /\ djDict' = value
    /\ resetter' = [at |-> "hasattr", keys |-> KeyOrder, value |-> Unset,
                    raised |-> FALSE]
    /\ UNCHANGED <<djIndiv, cache, resetFrom, lastGet, reader, clearer, gets,
                   fnVars, viewVars>>

\* reset: hasattr(self, key) finds the attribute, or enters __getattr__ and
\* reads the source
ProbeKey ==
    /\ resetter.at = "hasattr"
    /\ LET key == Head(resetter.keys)
       IN  resetter' =
              IF cache[key] # Unset THEN [resetter EXCEPT !.at = "delattr"]
              ELSE [resetter EXCEPT !.at = "setattr",
                                    !.value = Loaded(djDict, djIndiv, key)]
    /\ UNCHANGED <<confVars, reader, clearer, gets, fnVars, viewVars>>

\* reset: the __getattr__ run by hasattr caches what it read
StoreProbed ==
    /\ resetter.at = "setattr"
    /\ cache' = [cache EXCEPT ![Head(resetter.keys)] = resetter.value]
    /\ resetter' = [resetter EXCEPT !.at = "delattr", !.value = Unset]
    /\ UNCHANGED <<djDict, djIndiv, resetFrom, lastGet, changes, reader, clearer, gets,
                   fnVars, viewVars>>

\* reset: delattr(self, key), then the next key; delattr raises
\* AttributeError when the attribute is no longer there, which ends reset()
DeleteKey ==
    /\ resetter.at = "delattr"
    /\ cache' = [cache EXCEPT ![Head(resetter.keys)] = Unset]
    /\ resetter' = IF cache[Head(resetter.keys)] = Unset
                   THEN [NotResetting EXCEPT !.raised = TRUE]
                   ELSE IF Len(resetter.keys) = 1 THEN NotResetting
                   ELSE [resetter EXCEPT !.at = "hasattr",
                                         !.keys = Tail(resetter.keys)]
    /\ UNCHANGED <<djDict, djIndiv, resetFrom, lastGet, changes, reader, clearer, gets,
                   fnVars, viewVars>>

\* change_setting("HONEYGUARD_<key>", value, enter=False) in a third thread:
\* hasattr(self, key) finds the attribute, or enters __getattr__ and reads
\* the source
ProbeCleared(key) ==
    /\ clearer.at = "idle"
    /\ changes < MaxChanges
    /\ changes' = changes + 1
    /\ clearer' =
          IF cache[key] # Unset
          THEN [at |-> "delattr", key |-> key, value |-> Unset, raised |-> FALSE]
          ELSE [at |-> "setattr", key |-> key,
                value |-> Loaded(djDict, djIndiv, key), raised |-> FALSE]
    /\ UNCHANGED <<djDict, djIndiv, cache, resetFrom, lastGet, reader, resetter,
                   gets, fnVars, viewVars>>

\* change_setting: the __getattr__ run by hasattr caches what it read
StoreCleared ==
    /\ clearer.at = "setattr"
    /\ cache' = [cache EXCEPT ![clearer.key] = clearer.value]
    /\ clearer' = [clearer EXCEPT !.at = "delattr", !.value = Unset]
    /\ UNCHANGED <<djDict, djIndiv, resetFrom, lastGet, changes, reader, resetter,
                   gets, fnVars, viewVars>>

\* change_setting: delattr(self, setting_name)
ClearKey ==
    /\ clearer.at = "delattr"
    /\ cache' = [cache EXCEPT ![clearer.key] = Unset]
    /\ clearer' = [NotClearing EXCEPT !.raised = cache[clearer.key] = Unset]
    /\ UNCHANGED <<djDict, djIndiv, resetFrom, lastGet, changes, reader, resetter,
                   gets, fnVars, viewVars>>

InitRace ==
    /\ reader = Idle
    /\ resetter = NotResetting
    /\ clearer = NotClearing
    /\ gets = 0

NextRace ==
    \/ \E name \in Configured : BeginGet(name)
    \/ LoadSetting
    \/ StoreSetting
    \/ \E value \in DictConfigs : ReplaceAndReset(value)
    \/ ProbeKey
    \/ StoreProbed
    \/ DeleteKey
    \/ \E key \in Cleared : ProbeCleared(key)
    \/ StoreCleared
    \/ ClearKey

----------------------------------------------------------------------------
(* forms.py: FakeDjangoLoginForm and FakeWordPressLoginForm *)

Form(username, password, hp, form_render_time) ==
    [username |-> username, password |-> password, hp |-> hp,
     form_render_time |-> form_render_time]

User == Given(<<"u">>)
Pass == Given(<<"p", "w">>)

\* the submissions a client makes: an empty body, a human's, one with a
\* whitespace hp, a bot's, one without password, and one that asserts its own
\* render time
Forms ==
    {Form(Missing, Missing, Missing, Unset),
     Form(User, Pass, Missing, Unset),
     Form(User, Pass, Given(<<" ">>), Unset),
     Form(User, Pass, Given(<<"x">>), Unset),
     Form(User, Missing, Given(<<" ">>), Unset),
     Form(User, Pass, Missing, Iso(0))}

\* an empty QueryDict is false
QueryDictTruthy(form) ==
    form.username.has \/ form.password.has \/ form.hp.has
    \/ form.form_render_time # Unset

\* Form.is_valid: username and password are required, CharField strips
is_valid(form) ==
    strip(Get(form.username)) # <<>> /\ strip(Get(form.password)) # <<>>

\* Form.cleaned_data of a valid form.  hp is declared on LoginFormMixin, a plain
\* class: the metaclass of Form collects fields from the class body and from
\* bases that are forms, so hp is no field of the two forms and no key of
\* cleaned_data
cleaned_data(form) ==
    [username |-> Given(strip(Get(form.username))),
     password |-> Given(strip(Get(form.password))),
     hp |-> Missing,
     form_render_time |-> IF form.form_render_time = Unset THEN EmptyStr
                          ELSE form.form_render_time]

----------------------------------------------------------------------------
(* views.py: FakeAdminView *)

FAST == "TIMING_TOO_FAST_THRESHOLD"
SLOW == "TIMING_TOO_SLOW_THRESHOLD"

Setting(name) == Value(cache, djDict, djIndiv, name)

\* the settings check_timing_attack reads, in order
TimingKeys(render_time) ==
    LET p == fromisoformat(render_time)
        fast == Setting(FAST)
    IN  IF ~p.ok THEN <<>>
        ELSE IF Comparable(fast) /\ ~(now - p.t < fast.v) THEN <<FAST, SLOW>>
        ELSE <<FAST>>

\* FakeAdminView._check_timing
check_timing(request) ==
    LET render_time == request.session
    IN  IF Truthy(render_time)
        THEN check_timing_attack(render_time, now, Setting(FAST), Setting(SLOW))
        ELSE <<NoIssue, NoneV>>

CheckTimingKeys(request) ==
    IF Truthy(request.session) THEN TimingKeys(request.session) ELSE <<>>

NoForm == [given |-> FALSE, fields |-> [username |-> Missing, password |-> Missing,
                                        hp |-> Missing, form_render_time |-> Unset]]

\* what form_valid and form_invalid hand to _trigger_honeypot_signal
FormData(form) ==
    [given |-> TRUE,
     fields |-> IF is_valid(form) THEN cleaned_data(form) ELSE form]

FormDataTruthy(form_data) == form_data.given /\ QueryDictTruthy(form_data.fields)

\* FakeAdminView._trigger_honeypot_signal: the data sent with the signal.
\* A key the branch does not set is "absent" (timing_issue) or Unset.
trigger_honeypot_signal(request, form_data) ==
    IF FormDataTruthy(form_data)
    THEN LET timing == check_timing(request)
         IN  [is_none |-> FALSE,
              request_method |-> request.method,
              user_agent |-> request.user_agent,
              has_form |-> TRUE,
              username_attempted |-> Get(form_data.fields.username),
              password_attempted |-> Get(form_data.fields.password),
              honeypot_triggered |-> Get(form_data.fields.hp) # <<>>,
              timing_issue |-> timing[1],
              elapsed_time |-> timing[2]]
    ELSE [is_none |-> FALSE,
          request_method |-> request.method,
          user_agent |-> request.user_agent,
          has_form |-> FALSE,
          username_attempted |-> <<>>,
          password_attempted |-> <<>>,
          honeypot_triggered |-> FALSE,
          timing_issue |-> "absent",
          elapsed_time |-> Unset]

TriggerKeys(request, form_data) ==
    IF FormDataTruthy(form_data) THEN CheckTimingKeys(request) ELSE <<>>

----------------------------------------------------------------------------
(* loggers.py *)

\* HoneyGuardLogger._should_log on the settings object; LOG_LEVEL is read
\* only when console logging is enabled
should_log(level) ==
    IF ~Truthy(Setting("ENABLE_CONSOLE_LOGGING")) THEN FALSE
    ELSE should_log_with(Setting("ENABLE_CONSOLE_LOGGING"), Setting("LOG_LEVEL"),
                         level)

\* HoneyGuardLogger.debug, info, warning, error: the lines after the call
Log(lines, level, msg) ==
    IF should_log(level) THEN lines \cup {[level |-> level, msg |-> msg]}
    ELSE lines

\* the settings one logger call reads
LoggerKeys ==
    IF Truthy(Setting("ENABLE_CONSOLE_LOGGING"))
    THEN <<"ENABLE_CONSOLE_LOGGING", "LOG_LEVEL">>
    ELSE <<"ENABLE_CONSOLE_LOGGING">>

----------------------------------------------------------------------------
(* handlers.py *)

\* the row HoneyGuardLog.objects.create is given by log_to_database
LogRow(data) ==
    [request_method |-> data.request_method,
     user_agent |-> data.user_agent,
     username_attempted |-> data.username_attempted,
     password_attempted |-> data.password_attempted,
     honeypot_triggered |-> data.honeypot_triggered,
     timing_issue |-> IF data.timing_issue = "absent" THEN VALID
                      ELSE data.timing_issue,
     elapsed_time |-> IF data.elapsed_time = Unset THEN NoneV
                      ELSE data.elapsed_time]

\* timing_issue is a CharField without null=True: a None is refused by the
\* database, and log_to_database catches the error
Refused(data) == LogRow(data).timing_issue = NoIssue

\* log_to_database if it had no try/except around the insert
log_to_database_uncaught(rows, data) ==
    LET ok == ~Refused(data)
    IN  [rows |-> IF ok THEN Append(rows, LogRow(data)) ELSE rows,
         failed |-> ~ok,
         raised |-> ~ok]

\* log_to_database: the rows after it, whether the insert failed (the database
\* refused the row), and whether an exception leaves the function
log_to_database(rows, data) ==
    LET ok == ~Refused(data)
    IN  [rows |-> IF ok THEN Append(rows, LogRow(data)) ELSE rows,
         failed |-> ~ok,
         raised |-> FALSE]

EmptyText == <<"(", "e", "m", "p", "t", "y", ")">>

\* utils.build_email_body: the lines about the password, the flags and the
\* dump of the data
build_email_body(data) ==
    [password_line |-> IF data.password_attempted = <<>> THEN EmptyText
                       ELSE data.password_attempted,
     honeypot_line |-> data.honeypot_triggered,
     timing_line |-> IF data.timing_issue = "absent" THEN NoIssue
                     ELSE data.timing_issue,
     metadata_password |-> data.password_attempted]

\* send_alert_email and utils.send_email_alert: the mails handed to send_mail,
\* and whether an exception leaves the function (send_email_alert catches
\* what send_mail raises)
send_alert_email(mails, data, delivered) ==
    LET recipients == Setting("EMAIL_RECIPIENTS")
    IN  [mails |-> IF ~Truthy(recipients) THEN mails
                   ELSE Append(mails, [to |-> recipients.v,
                                       body |-> build_email_body(data),
                                       delivered |-> delivered]),
         raised |-> FALSE]

\* what log_to_database logs: debug, or error when the insert failed
DatabaseLines(lines, failed) ==
    IF failed THEN Log(lines, 40, "database failed")
    ELSE Log(lines, 10, "logged to database")

\* what log_to_console (warning) and send_alert_email log (debug without
\* recipients, else info or error by the outcome of send_mail)
HandlerLines(lines, delivered) ==
    LET l2 == Log(lines, 30, "honeypot triggered")
    IN  IF ~Truthy(Setting("EMAIL_RECIPIENTS")) THEN Log(l2, 10, "no recipients")
        ELSE IF delivered THEN Log(l2, 20, "email sent")
        ELSE Log(l2, 40, "email failed")

\* a signal sent with data={}: every key is absent, the request is a GET
EmptyData ==
    [is_none |-> FALSE, request_method |-> "GET", user_agent |-> <<>>,
     has_form |-> FALSE, username_attempted |-> <<>>, password_attempted |-> <<>>,
     honeypot_triggered |-> FALSE, timing_issue |-> "absent", elapsed_time |-> Unset]

\* a signal sent with data=None
NoData == [EmptyData EXCEPT !.is_none = TRUE]

\* handle_honeypot_trigger: data.get("ip_address", ...), which raises
\* AttributeError when data is None; then log_to_database, log_to_console,
\* send_alert_email in turn; an exception that leaves one of them ends the
\* handler
handle_honeypot_trigger(rows, lines, mails, data, delivered) ==
    LET d == log_to_database(rows, data)
        l1 == DatabaseLines(lines, d.failed)
        m == send_alert_email(mails, data, delivered)
    IN  IF data.is_none
        THEN [db |-> rows, console |-> lines, outbox |-> mails, raised |-> TRUE]
        ELSE IF d.raised
        THEN [db |-> d.rows, console |-> lines, outbox |-> mails, raised |-> TRUE]
        ELSE [db |-> d.rows, console |-> HandlerLines(l1, delivered),
              outbox |-> m.mails, raised |-> m.raised]

\* send_alert_email reads EMAIL_RECIPIENTS (utils.send_email_alert reads it
\* again); every logger call reads the logging settings
HandlerKeys == LoggerKeys \o <<"EMAIL_RECIPIENTS">>

\* the outcomes send_mail can have: none to tell apart without recipients
Deliveries == IF Truthy(Setting("EMAIL_RECIPIENTS")) THEN BOOLEAN ELSE {TRUE}

\* whether honeypot_triggered.send raises: what leaves handle_honeypot_trigger
\* leaves send
Raised(data, delivered) ==
    \/ data.is_none
    \/ log_to_database(<<>>, data).raised
    \/ send_alert_email(<<>>, data, delivered).raised

\* the view sends honeypot_triggered and handle_honeypot_trigger runs
SendSignal(data, keys, delivered) ==
    LET h == handle_honeypot_trigger(db, console, outbox, data, delivered)
    IN  /\ sent' = Append(sent, data)
        /\ db' = h.db
        /\ console' = h.console
        /\ outbox' = h.outbox
        /\ cache' = CachedAll(cache, djDict, djIndiv,
                              keys \o (IF data.is_none THEN <<>> ELSE HandlerKeys))

----------------------------------------------------------------------------
(* Requests to a fake admin view *)

Verdict(data) == <<data.timing_issue, data.elapsed_time>>

Request(method, form, user_agent) ==
    [method |-> method, session |-> session, form |-> form,
     user_agent |-> user_agent]

\* the record kept of a request; at is when the last request to a view was
\* handled
Handled(request, signalled, delivered, raised) ==
    [method |-> request.method, form |-> request.form,
     user_agent |-> request.user_agent, session |-> request.session,
     signalled |-> signalled, delivered |-> delivered, raised |-> raised,
     at |-> now, rows |-> Len(db), mails |-> Len(outbox)]

NoRequest ==
    [method |-> "", form |-> NoForm.fields, user_agent |-> <<>>, session |-> NoneV,
     signalled |-> FALSE, delivered |-> TRUE, raised |-> FALSE,
     at |-> 0, rows |-> 0, mails |-> 0]

\* post() if it dropped the render time after dispatch had stored it
render_time_popped(method, raised) ==
    IF raised THEN session
    ELSE IF method = "POST" THEN NoneV
    ELSE Iso(now)

\* the render time the session holds when dispatch returns: post() pops it,
\* then dispatch stores the current time; an exception in the view leaves the
\* session as it was
render_time(method, raised) == IF raised THEN session ELSE Iso(now)

NoMessage == NoneV
NoResponse == [status |-> 0, message |-> NoMessage, errors |-> {}]

\* the fields Form.is_valid finds an error for
FieldErrors(form) ==
    {f \in {"username", "password"} : strip(Get(form[f])) = <<>>}

\* the answer to a GET: the form, or a server error if the signal raised
GetResponse(raised) ==
    [status |-> IF raised THEN 500 ELSE 200, message |-> NoMessage, errors |-> {}]

\* a view that answered bots with another message
PostResponseRevealing(form, data, raised) ==
    [status |-> IF raised THEN 500 ELSE 200,
     message |-> IF raised THEN NoMessage
                 ELSE IF data.honeypot_triggered THEN StrV(4)
                 ELSE Setting("DJANGO_ERROR_MESSAGE"),
     errors |-> IF raised THEN {} ELSE FieldErrors(form)]

\* FakeAdminView.post, form_valid, form_invalid: the form rendered again with
\* its field errors, and messages.error(get_error_message()); a server error
\* if the signal raised.  data is what the signal was sent with
PostResponse(form, data, raised) ==
    [status |-> IF raised THEN 500 ELSE 200,
     message |-> IF raised THEN NoMessage ELSE Setting("DJANGO_ERROR_MESSAGE"),
     errors |-> IF raised THEN {} ELSE FieldErrors(form)]

\* GET: FakeAdminView.dispatch -> get, then the render time goes to the session
GetRequest(user_agent, delivered) ==
    LET request == Request("GET", NoForm.fields, user_agent)
        detect == Truthy(Setting("ENABLE_GET_METHOD_DETECTION"))
        data == trigger_honeypot_signal(request, NoForm)
        raised == detect /\ Raised(data, delivered)
    IN  /\ requests < MaxRequests
        /\ requests' = requests + 1
        /\ IF detect
           THEN SendSignal(data, <<"ENABLE_GET_METHOD_DETECTION">>, delivered)
           ELSE /\ cache' = Cached(cache, djDict, djIndiv,
                                   "ENABLE_GET_METHOD_DETECTION")
                /\ UNCHANGED <<sent, db, outbox, console>>
        /\ response' = GetResponse(raised)
        /\ last' = Handled(request, detect, delivered, raised)
        /\ session' = render_time("GET", raised)
        /\ UNCHANGED <<now, verdicts, djDict, djIndiv, resetFrom, lastGet, changes, fnVars, raceVars>>

\* POST: dispatch -> post -> form_valid or form_invalid -> signal; post pops the
\* render time and dispatch stores a new one.  verdicts collects the timing
\* result of every submission that differs from this one in client-supplied
\* form fields only, worked out in the same state.
PostRequest(form, user_agent, delivered) ==
    LET request == Request("POST", form, user_agent)
        data == trigger_honeypot_signal(request, FormData(form))
        raised == Raised(data, delivered)
    IN  /\ requests < MaxRequests
        /\ requests' = requests + 1
        /\ SendSignal(data,
                      TriggerKeys(request, FormData(form))
                         \o (IF raised THEN <<>> ELSE <<"DJANGO_ERROR_MESSAGE">>),
                      delivered)
        /\ verdicts' =
              {Verdict(trigger_honeypot_signal(
                           Request("POST", twin, user_agent), FormData(twin))) :
                  twin \in Forms}
        /\ response' = PostResponse(form, data, raised)
        /\ last' = Handled(request, TRUE, delivered, raised)
        /\ session' = render_time("POST", raised)
        /\ UNCHANGED <<now, djDict, djIndiv, resetFrom, lastGet, changes, fnVars, raceVars>>

\* honeypot_triggered.send(sender, request, data) by a caller other than the
\* view, with data None or {}: the signal reaches handle_honeypot_trigger,
\* and what it raises leaves send
SendDirectly(data, delivered) ==
    LET raised == Raised(data, delivered)
    IN  /\ requests < MaxRequests
        /\ requests' = requests + 1
        /\ SendSignal(data, <<>>, delivered)
        /\ last' = [NoRequest EXCEPT !.method = "SEND", !.delivered = delivered,
                                     !.raised = raised, !.at = last.at,
                                     !.rows = Len(db), !.mails = Len(outbox)]
        /\ UNCHANGED <<now, session, verdicts, response, djDict, djIndiv, resetFrom,
                       lastGet, changes, fnVars, raceVars>>

\* time passes between requests
Tick ==
    /\ now < MaxTime
    /\ now' = now + 1
    /\ UNCHANGED <<session, db, outbox, console, sent, verdicts, requests, response, last,
                   confVars, fnVars, raceVars>>

\* the session expires, or the client comes back without its session cookie
SessionLost ==
    /\ session # NoneV
    /\ session' = NoneV
    /\ UNCHANGED <<now, db, outbox, console, sent, verdicts, requests, response, last,
                   confVars, fnVars, raceVars>>

Alerting ==
    [key \in Keys |->
        CASE key = "TIMING_TOO_FAST_THRESHOLD" -> Num(1)
          [] key = "TIMING_TOO_SLOW_THRESHOLD" -> Num(1)
          [] key = "EMAIL_RECIPIENTS" -> ListV(1)
          [] key = "ENABLE_GET_METHOD_DETECTION" -> BoolV(TRUE)
          [] key = "ENABLE_CONSOLE_LOGGING" -> BoolV(TRUE)
          [] key = "LOG_LEVEL" -> LowerLevelName(10)
          [] key = "DJANGO_ERROR_MESSAGE" -> StrV(3)]

InitView ==
    /\ now = 0
    /\ session = NoneV
    /\ db = <<>>
    /\ outbox = <<>>
    /\ console = {}
    /\ sent = <<>>
    /\ verdicts = {}
    /\ requests = 0
    /\ response = NoResponse
    /\ last = NoRequest

\* the User-Agent header of the clients of the view
Clients == {<<"x">>}

NextView ==
    \/ \E user_agent \in Clients, delivered \in Deliveries :
          GetRequest(user_agent, delivered)
    \/ \E form \in Forms, user_agent \in Clients, delivered \in Deliveries :
          PostRequest(form, user_agent, delivered)
    \/ \E data \in {NoData, EmptyData}, delivered \in Deliveries :
          SendDirectly(data, delivered)
    \/ Tick
    \/ SessionLost

----------------------------------------------------------------------------
(* Specifications *)

\* the view, its handler and the settings they read, under a fixed configuration
Init ==
    /\ InitView
    /\ djDict \in {EmptyConf, Alerting}
    /\ djIndiv = EmptyConf
    /\ cache = EmptyConf
    /\ lastGet = NoGet
    /\ resetFrom = NoReset
    /\ changes = 0
    /\ InitRace
    /\ fnIn = NoOut
    /\ fnOut = NoOut

Next == NextView

Spec == Init /\ [][Next]_vars

\* the settings object under accesses, configuration changes and resets
InitSettings ==
    /\ InitConf
    /\ InitView
    /\ InitRace
    /\ fnIn = NoOut
    /\ fnOut = NoOut

SpecSettings == InitSettings /\ [][NextConf]_vars

\* the settings object shared by a reading and a resetting thread
SpecRace == InitSettings /\ [][NextRace]_vars

\* the pure functions
InitPure ==
    /\ InitFn
    /\ InitView
    /\ djDict = EmptyConf
    /\ djIndiv = EmptyConf
    /\ cache = EmptyConf
    /\ lastGet = NoGet
    /\ resetFrom = NoReset
    /\ changes = 0
    /\ InitRace

SpecFn == InitPure /\ [][NextFn]_vars

----------------------------------------------------------------------------
(* The placeholder "***N chars***" a password is to be shown as *)

Digit(n) == <<"0", "1", "2", "3", "4", "5", "6", "7", "8", "9">>[n + 1]

Placeholder(n) ==
    <<"*", "*", "*", Digit(n)>> \o <<" ", "c", "h", "a", "r", "s", "*", "*", "*">>

----------------------------------------------------------------------------
(* Properties *)

\* some character of v is not whitespace
HasVisibleChar(v) == \E i \in 1..Len(v) : v[i] \notin Whitespace

\* the hidden-field value a HoneyGuardService is given: none without data
HiddenValue(data) == IF data.none THEN <<>> ELSE Get(data.hp)

\* C1: for every hidden-field value (absent, empty and whitespace-only ones
\* included) the honeypot flag of HoneyGuardService.__init__ and of
\* LoginFormMixin.is_honeypot_triggered is true exactly when the value has a
\* character left after its leading and trailing whitespace is removed.
HoneypotFlagIffTrimmedNonEmpty ==
    /\ fnOut.fn = "service" =>
          fnOut.val.honeypot_triggered = HasVisibleChar(HiddenValue(fnIn.data))
    /\ fnOut.fn = "mixin" => fnOut.val = HasVisibleChar(Get(fnIn.hp))

\* a whitespace-only value of two characters went through the service and gave false
WhitespaceOnlyGivesFalse ==
    /\ fnOut.fn = "service"
    /\ fnIn.data.hp = Given(<<" ", "\t">>)
    /\ ~fnOut.val.honeypot_triggered

UnparsableRenderTimeGivesValidZero ==
    (fnOut.fn = "timing" /\ ~fromisoformat(fnIn.rt).ok) =>
        fnOut.val = <<VALID, Num(0)>>

B(flag) == IF flag THEN 1 ELSE 0

\* r2 has every contributing flag that r1 has
AtLeastAsSuspicious(r2, r1) ==
    /\ r1.honeypot_triggered => r2.honeypot_triggered
    /\ r1.timing_issue = TOO_FAST => r2.timing_issue = TOO_FAST
    /\ r1.user_agent = <<>> => r2.user_agent = <<>>

\* C4: risk_score is min(100, 50*[honeypot] + 30*[timing is TooFast] +
\* 20*[no user agent]); it lies in 0..100, does not decrease when a flag is
\* switched on, is 100 with all three flags and 0 with none.
RiskScoreIsCappedSum ==
    fnOut.fn = "risk" =>
        LET r == fnIn.rec
            sum == 50 * B(r.honeypot_triggered) + 30 * B(r.timing_issue = TOO_FAST)
                   + 20 * B(r.user_agent = <<>>)
        IN  /\ fnOut.val = IF sum > 100 THEN 100 ELSE sum
            /\ fnOut.val \in 0..100
            /\ r.timing_issue \in {TOO_SLOW, VALID} =>
                  fnOut.val = 50 * B(r.honeypot_triggered) + 20 * B(r.user_agent = <<>>)
            /\ \A r2 \in LogRecords :
                  AtLeastAsSuspicious(r2, r) => risk_score(r2) >= fnOut.val
            /\ (r.honeypot_triggered /\ r.timing_issue = TOO_FAST /\ r.user_agent = <<>>)
                  => fnOut.val = 100
            /\ (~r.honeypot_triggered /\ r.timing_issue # TOO_FAST /\ r.user_agent # <<>>)
                  => fnOut.val = 0

\* the score of a record with all three flags was computed, and is 100
AllFlagsScoreHundred ==
    /\ fnOut.fn = "risk"
    /\ fnIn.rec.honeypot_triggered
    /\ fnIn.rec.timing_issue = TOO_FAST
    /\ fnIn.rec.user_agent = <<>>
    /\ fnOut.val = 100

\* C5: is_bot is true exactly when honeypot_triggered is true or timing_issue
\* is TooFast; TooSlow without the honeypot flag is not a bot.
IsBotIffHoneypotOrTooFast ==
    fnOut.fn = "bot" =>
        /\ fnOut.val = (fnIn.rec.honeypot_triggered \/ fnIn.rec.timing_issue = TOO_FAST)
        /\ (fnIn.rec.timing_issue = TOO_SLOW /\ ~fnIn.rec.honeypot_triggered)
              => ~fnOut.val

\* is_bot was evaluated on a TooSlow record without the honeypot flag: false
TooSlowAloneIsNotBot ==
    /\ fnOut.fn = "bot"
    /\ fnIn.rec.timing_issue = TOO_SLOW
    /\ ~fnIn.rec.honeypot_triggered
    /\ fnOut.val = FALSE

IsSanitized(text) == text = <<>> \/ \E n \in 1..9 : text = Placeholder(n)

\* C6: every row written to the database and every alert email body carries
\* the password only as "***N chars***", or as nothing when none was submitted.
PasswordNeverInClear ==
    /\ \A i \in DOMAIN db : IsSanitized(db[i].password_attempted)
    /\ \A i \in DOMAIN outbox :
          /\ outbox[i].body.password_line = EmptyText
             \/ IsSanitized(outbox[i].body.password_line)
          /\ IsSanitized(outbox[i].body.metadata_password)

\* no timing result: the keys were not set, or check_timing gave (None, None)
Effective(verdict) ==
    IF verdict[1] \in {"absent", NoIssue} THEN <<NoIssue, NoneV>> ELSE verdict

\* C7: two submissions made in the same server state at the same time that
\* differ only in client-supplied form fields get the same timing verdict and
\* the same elapsed time.
TimingIndependentOfFormFields ==
    \A v \in verdicts, w \in verdicts : Effective(v) = Effective(w)

\* C9: a submission whose render time cannot be trusted (the session holds
\* none) is processed to the end, the signal is sent, and its timing is
\* Valid or Unknown with an elapsed time of zero.
UntrustedTimingIsValidZero ==
    [][\A form \in Forms, user_agent \in UserAgents, delivered \in BOOLEAN :
          (/\ PostRequest(form, user_agent, delivered)
           /\ QueryDictTruthy(form)
           /\ ~Truthy(session))
          => /\ Len(sent') = Len(sent) + 1
             /\ sent'[Len(sent')].timing_issue \in {VALID, "unknown"}
             /\ sent'[Len(sent')].elapsed_time = Num(0)]_vars

\* a threshold is valid when it is a number of at least 0.1 s (too fast) or
\* 1.0 s (too slow)
ValidThreshold(name, value) ==
    value.k = "num" /\ 10 * value.v >= (IF name = FAST THEN 1 ELSE 10)

\* C10: reading a threshold that is configured with a non-number or with a
\* value under its minimum raises ImproperlyConfigured; the value is neither
\* returned nor cached.
InvalidThresholdRaises ==
    [][\A name \in {FAST, SLOW} :
          (/\ GetAttr(name)
           /\ cache[name] = Unset
           /\ ~ValidThreshold(name, Loaded(djDict, djIndiv, name)))
          => /\ lastGet'.raised = "ImproperlyConfigured"
             /\ cache'[name] = Unset]_vars

\* C11: reading LOG_LEVEL gives the configured string in upper case when that
\* is one of DEBUG, INFO, WARNING, ERROR, CRITICAL, and raises
\* ImproperlyConfigured for a non-string or a string outside the five levels.
LogLevelUpperCasedOrRaises ==
    [][(GetAttr("LOG_LEVEL") /\ cache["LOG_LEVEL"] = Unset)
          => LET configured == Loaded(djDict, djIndiv, "LOG_LEVEL")
             IN  IF configured.k = "str" /\ Upper(configured).v \in Levels
                 THEN /\ lastGet'.raised = "no"
                      /\ lastGet'.value = Upper(configured)
                 ELSE lastGet'.raised = "ImproperlyConfigured"]_vars

\* C12: reading EMAIL_RECIPIENTS raises ImproperlyConfigured when the
\* configured value is not a list (a plain string, say), and gives a list of
\* strings back unchanged.
RecipientsListOrRaises ==
    [][(GetAttr("EMAIL_RECIPIENTS") /\ cache["EMAIL_RECIPIENTS"] = Unset)
          => LET configured == Loaded(djDict, djIndiv, "EMAIL_RECIPIENTS")
             IN  IF configured.k = "list"
                 THEN /\ lastGet'.raised = "no"
                      /\ lastGet'.value = configured
                 ELSE lastGet'.raised = "ImproperlyConfigured"]_vars

\* C13: the first access to a key loads it from the source and stores it; every
\* later access until the key is invalidated returns the stored value and
\* leaves the cache as it is, without a new load from the source.
KeyLoadedOncePerCycle ==
    [][\A name \in Keys :
          GetAttr(name)
          => IF cache[name] = Unset
             THEN /\ lastGet'.value = Loaded(djDict, djIndiv, name)
                  /\ cache' = [cache EXCEPT ![name] = lastGet'.value]
             ELSE /\ lastGet'.value = cache[name]
                  /\ cache' = cache]_vars

\* a second access returned the number an earlier access had got by calling
\* the configured callable
SecondAccessServedFromCache ==
    /\ lastGet.name = SLOW
    /\ lastGet.hit
    /\ get_setting(djDict, djIndiv, SLOW) = Call(3)
    /\ lastGet.value = Num(3)

\* C14: every configuration change signal (HONEYGUARD or HONEYGUARD_<KEY>,
\* entered or removed) leaves no key cached; the change writes no value into
\* the cache.
ChangeSignalClearsCache ==
    [][changes' = changes + 1 => cache' = EmptyConf]_vars

\* C15: when every change of the source is followed by its signal, an access
\* to a key returns what the current source yields for it under the
\* precedence rule: the dictionary entry, else HONEYGUARD_<KEY>, else the
\* default.
AccessReturnsCurrentSource ==
    [][\A name \in Keys :
          GetAttr(name) => lastGet'.value = Loaded(djDict, djIndiv, name)]_vars

\* what the precedence rule selects for a key: the dictionary entry, else the
\* individual setting, else the default; a callable stands for its result
Selected(name) ==
    LET entry == IF djDict[name] # Unset THEN djDict[name]
                 ELSE IF djIndiv[name] # Unset THEN djIndiv[name]
                 ELSE DEFAULTS[name]
    IN  IF entry.k = "call" THEN Num(entry.v) ELSE entry

NoStaleValueOnceBothCompleted ==
    (reader.at = "idle" /\ resetter.at = "idle" /\ clearer.at = "idle")
    => \A key \in Keys :
          cache[key] = Unset \/ cache[key] = Loaded(djDict, djIndiv, key)

\* what the session can hold as the render time of the form
Sessions == {NoneV} \cup {Iso(t) : t \in 0..MaxTime}

\* the data the signal of the last request was sent with
LastData == sent[Len(sent)]

\* C19: a failing sink does not abort the handling of a trigger: when the
\* insert into the database raises, the console line is still written and the
\* email alert still sent; when sending the email raises, it is caught; in
\* both cases the handler returns to the view, which answers as usual.
SinkFailureDoesNotAbortHandling ==
    LET recipients == Truthy(Setting("EMAIL_RECIPIENTS"))
        dbFailed == Refused(LastData)
        mailFailed == recipients /\ ~last.delivered
    IN  (last.signalled /\ (dbFailed \/ mailFailed))
        => /\ response.status = 200
           /\ dbFailed => Len(db) = last.rows
           /\ should_log(30)
                 => [level |-> 30, msg |-> "honeypot triggered"] \in console
           /\ recipients
                 => /\ Len(outbox) = last.mails + 1
                    /\ outbox[Len(outbox)].body = build_email_body(LastData)
                    /\ outbox[Len(outbox)].delivered = last.delivered

\* one trigger for which both the insert and the mail failed: nothing stored,
\* the console line written, the mail attempted, the request answered
BothSinksFailedYetAnswered ==
    /\ requests = 1
    /\ Len(sent) = 1
    /\ db = <<>>
    /\ Len(outbox) = 1
    /\ ~outbox[1].delivered
    /\ [level |-> 30, msg |-> "honeypot triggered"] \in console
    /\ [level |-> 40, msg |-> "email failed"] \in console
    /\ response.status = 200

\* C20: the answer to a POST does not depend on the detection outcome: the
\* message is the configured error message for every submission, and a
\* submission with the same credentials gets the same response whatever its
\* honeypot field holds and whatever render time its session holds.
ResponseIndependentOfDetection ==
    last.method = "POST"
    => /\ response.message = Setting("DJANGO_ERROR_MESSAGE")
       /\ \A twin \in Forms, s \in Sessions :
             (twin.username = last.form.username /\ twin.password = last.form.password)
             => LET request == [method |-> "POST", session |-> s, form |-> twin,
                                user_agent |-> last.user_agent]
                    data == trigger_honeypot_signal(request, FormData(twin))
                IN  PostResponse(twin, data, Raised(data, last.delivered)) = response

\* a submission flagged for its honeypot field and for being too fast was
\* answered with the configured error message
BotGotTheUsualAnswer ==
    /\ last.method = "POST"
    /\ response.status = 200
    /\ response.message = Setting("DJANGO_ERROR_MESSAGE")
    /\ LastData.honeypot_triggered
    /\ LastData.timing_issue = TOO_FAST

\* the last step sent honeypot_triggered: from a view, or directly
SignalSent == last.signalled \/ last.method = "SEND"

\* C21: every honeypot_triggered signal that is sent, with data that carries
\* form fields, with an empty dictionary or with None, is handled without an
\* exception and leaves exactly one more HoneyGuardLog row.
EveryTriggerStoresOneRecord ==
    SignalSent => (~last.raised /\ Len(db) = last.rows + 1)

\* C22: a trigger attempts one send_mail, to the configured recipients, when
\* EMAIL_RECIPIENTS is non-empty, and none when it is empty; nothing is raised.
AlertSentIffRecipients ==
    LET recipients == Setting("EMAIL_RECIPIENTS")
    IN  SignalSent
        => /\ ~last.raised
           /\ IF Truthy(recipients)
              THEN /\ Len(outbox) = last.mails + 1
                   /\ outbox[Len(outbox)].to = recipients.v
              ELSE Len(outbox) = last.mails

\* the five levels in their order
LevelOrder == <<10, 20, 30, 40, 50>>

\* the place of a level in the order DEBUG < INFO < WARNING < ERROR < CRITICAL
Rank(level) == CHOOSE i \in 1..Len(LevelOrder) : LevelOrder[i] = level

\* C23: a logger emits a message at level L exactly when ENABLE_CONSOLE_LOGGING
\* is true and L is at or above the configured LOG_LEVEL (a level name in
\* either case) in the order DEBUG < INFO < WARNING < ERROR < CRITICAL; with
\* ENABLE_CONSOLE_LOGGING false nothing is emitted at any level, the WARNING
\* line of a honeypot trigger included.
EmittedIffEnabledAndAtOrAboveLevel ==
    fnOut.fn = "logger" =>
        /\ Upper(fnIn.log_level).v \in Levels =>
              fnOut.val = (/\ fnIn.enabled = BoolV(TRUE)
                           /\ Rank(fnIn.level) >= Rank(Upper(fnIn.log_level).v))
        /\ fnIn.enabled = BoolV(FALSE) => ~fnOut.val

\* an ERROR message under LOG_LEVEL "error" was emitted
ErrorEmittedAtLevelError ==
    /\ fnOut.fn = "logger"
    /\ fnIn.enabled = BoolV(TRUE)
    /\ fnIn.log_level = LowerLevelName(40)
    /\ fnIn.level = 40
    /\ fnOut.val

\* C24: an access to a name that is not a setting key raises AttributeError
\* and leaves the cache as it was: no entry added, removed or changed.
UnknownNameRaisesAndLeavesCache ==
    [][\A name \in Names \ Keys :
          GetAttr(name) => (lastGet'.raised = "AttributeError" /\ cache' = cache)]_vars

\* an unknown name was asked for while a key was cached
UnknownNameAskedWithCachedKey ==
    /\ lastGet.name = "NO_SUCH_SETTING"
    /\ lastGet.raised = "AttributeError"
    /\ \E key \in Keys : cache[key] # Unset

\* C25: the honeypot_triggered flag a view sends with the signal for a POST is
\* true exactly when the submitted hp value has a character left after its
\* whitespace is trimmed; a whitespace-only hp gives false.
ViewFlagIffTrimmedHpNonEmpty ==
    last.method = "POST"
    => LastData.honeypot_triggered = HasVisibleChar(Get(last.form.hp))

\* C26: the timing issue of every detection that is sent with the signal or
\* stored is too_fast, too_slow, valid or the unknown marker, never None (data
\* without the key is stored with the default), and a POST without a render
\* time still has its record stored.
TimingIssueNeverNull ==
    /\ \A i \in DOMAIN sent :
          sent[i].timing_issue \in TimingIssue \cup {"unknown", "absent"}
    /\ \A i \in DOMAIN db : db[i].timing_issue \in TimingIssue \cup {"unknown"}
    /\ (last.method = "POST" /\ ~Truthy(last.session))
          => Len(db) = last.rows + 1

\* C27: reset() and the clearing branches of the change handlers only remove
\* cached entries: for a key that is not cached they never hold a value read
\* from the configuration source (so they invoke no callable setting value
\* and cannot fail on it).
ClearingReadsNoSource ==
    /\ resetter.at # "setattr" /\ resetter.value = Unset
    /\ clearer.at # "setattr" /\ clearer.value = Unset

\* C29: reset() never raises under concurrency: whatever the interleaving of a
\* reset(), a cache-clearing change signal and accesses, reset() completes
\* without an AttributeError.
ResetNeverRaises == ~resetter.raised

\* C28: the value an access to a setting key returns, and caches, is never a
\* callable that is not a class: a callable configured value is invoked and
\* its result is returned; this holds after a configuration change signal
\* that carries a callable value too.
AccessNeverReturnsCallable ==
    (lastGet.name \in Keys /\ lastGet.raised = "no")
    => /\ ~is_callable_not_type(lastGet.value)
       /\ ~is_callable_not_type(cache[lastGet.name])

\* C30: at the end of every GET and POST to a fake-admin view the session
\* holds a form_render_time equal to the time the request was handled (the
\* pop of post() is followed by a new value in the same request), so the
\* render time a request finds is the end of the preceding request of the
\* session, and the elapsed time of a POST is measured from it.
RenderTimeRenewedByEveryRequest ==
    [][(requests' = requests + 1 /\ last'.method \in {"GET", "POST"})
       => /\ session' = Iso(now)
          /\ Truthy(session) => session = Iso(last.at)
          /\ (last'.method = "POST" /\ Truthy(session)
              /\ sent'[Len(sent')].has_form)
                => sent'[Len(sent')].elapsed_time = Num(now - last.at)]_vars

\* a second request, a POST one second after the first, was timed from the
\* first and left its own time in the session
PostTimedFromPrecedingRequest ==
    /\ requests = 2
    /\ last.method = "POST"
    /\ last.session = Iso(last.at - 1)
    /\ LastData.elapsed_time = Num(1)
    /\ session = Iso(last.at)

====
